---- MODULE Spec2Model ----
(***************************************************************************)
(* Top-20 crypto investment recommender: recommend_coins.py (statistics,   *)
(* ranking, allocation and the batch entry point main) and                 *)
(* streamlit_recommend.py (the dashboard script and its session state).    *)
(*                                                                         *)
(* Numbers.  The statistics are floating-point in the source.  The model   *)
(* computes them in decimal fixed point with six fractional digits: the    *)
(* integer x stands for x / Scale, every division and product rounds to    *)
(* the nearest unit, and the three non-finite outcomes numpy produces      *)
(* (inf, -inf, nan) are the values Inf, NegInf and NaN.  Amounts and       *)
(* quantities of the allocation are exact fractions [num, den].            *)
(* An optional value (Python's None or an object) is a sequence of length  *)
(* 0 or 1.  A DataFrame is the sequence of its rows, each row a record     *)
(* that carries its index label in the field "index".                      *)
(***************************************************************************)
EXTENDS Integers, Sequences, FiniteSets

VARIABLES
    pc,                 \* position of the running entry point
    top_coins,          \* main: the snapshot returned by fetch_top_20_coins
    idx,                \* main: number of coins of top_coins already analysed
    fetched,            \* main: the market-chart response received for each analysed coin
    stats_list,         \* list of CoinStats rows
    df_stats,           \* main: the stats table (None until built)
    strategy,           \* strategy passed to rank_coins_by_strategy
    investment_amount,  \* amount passed to allocate_portfolio
    top_n,              \* top_n / num_coins passed to allocate_portfolio
    ranked,             \* result of rank_coins_by_strategy (None until built)
    portfolio,          \* result of allocate_portfolio (None until built)
    session_state,      \* dashboard: st.session_state
    result_params       \* dashboard history: the parameters that produced session_state.portfolio

vars == <<pc, top_coins, idx, fetched, stats_list, df_stats, strategy,
          investment_amount, top_n, ranked, portfolio, session_state, result_params>>

-----------------------------------------------------------------------------
(* Values *)

None == <<>>
Some(x) == <<x>>
IsNone(x) == x = None
Val(x) == x[1]

Scale == 1000 * 1000
Inf == 2000000000
NegInf == 0 - Inf
NaN == -2147483647

IsNull(x) == x = NaN
IsFinite(x) == x # NaN /\ x # Inf /\ x # NegInf

Abs(x) == IF x < 0 THEN 0 - x ELSE x
Sign(x) == IF x < 0 THEN 0 - 1 ELSE IF x > 0 THEN 1 ELSE 0

\* a / b rounded to the nearest integer, b > 0
DivRound(a, b) == (2 * a + b) \div (2 * b)

\* the fixed-point quotient a / b of two finite numbers, b # 0 (long division)
DivFix(a, b) ==
    LET n  == Abs(a)
        d  == Abs(b)
        q1 == n \div d
        r1 == n % d
        q2 == (r1 * 1000) \div d
        r2 == (r1 * 1000) % d
        q3 == DivRound(r2 * 1000, d)
    IN  Sign(a) * Sign(b) * (q1 * Scale + q2 * 1000 + q3)

\* the fixed-point product of two non-negative finite numbers
MulFix(x, y) ==
    LET xh == x \div 1000
        xl == x % 1000
        yh == y \div 1000
        yl == y % 1000
    IN  xh * yh + DivRound(xh * yl + xl * yh + DivRound(xl * yl, 1000), 1000)

\* numpy's float division a / b
NpDiv(a, b) ==
    IF IsNull(a) \/ IsNull(b) THEN NaN
    ELSE IF ~IsFinite(a) /\ ~IsFinite(b) THEN NaN
    ELSE IF ~IsFinite(a) THEN (IF b < 0 THEN 0 - a ELSE a)
    ELSE IF ~IsFinite(b) THEN 0
    ELSE IF b = 0 THEN (IF a = 0 THEN NaN ELSE IF a > 0 THEN Inf ELSE NegInf)
    ELSE DivFix(a, b)

\* x ** n for a finite x >= 0, by repeated squaring
RECURSIVE PowFix(_, _)
PowFix(x, n) ==
    IF n = 0 THEN Scale
    ELSE IF n % 2 = 0 THEN LET h == PowFix(x, n \div 2) IN MulFix(h, h)
    ELSE MulFix(x, PowFix(x, n - 1))

\* the integer square root
RECURSIVE SqrtSearch(_, _, _)
SqrtSearch(n, lo, hi) ==
    IF lo >= hi THEN lo
    ELSE LET mid == (lo + hi + 1) \div 2
         IN  IF mid * mid <= n THEN SqrtSearch(n, mid, hi) ELSE SqrtSearch(n, lo, mid - 1)

RECURSIVE SumSeq(_)
SumSeq(s) == IF s = <<>> THEN 0 ELSE Head(s) + SumSeq(Tail(s))

AllFinite(s) == \A i \in 1..Len(s) : IsFinite(s[i])
AnyNaN(s) == \E i \in 1..Len(s) : IsNull(s[i])

\* np.mean of a non-empty array
NpMean(s) ==
    IF AllFinite(s) THEN DivRound(SumSeq(s), Len(s))
    ELSE IF AnyNaN(s) THEN NaN
    ELSE IF (\E i \in 1..Len(s) : s[i] = Inf) /\ (\E i \in 1..Len(s) : s[i] = NegInf) THEN NaN
    ELSE IF \E i \in 1..Len(s) : s[i] = Inf THEN Inf ELSE NegInf

\* np.std of a non-empty array (population standard deviation)
NpStd(s) ==
    IF ~AllFinite(s) THEN NaN
    ELSE LET m   == NpMean(s)
             sq  == [i \in 1..Len(s) |-> (s[i] - m) * (s[i] - m)]
             var == DivRound(SumSeq(sq), Len(s))
         IN  SqrtSearch(var, 0, 40000)

-----------------------------------------------------------------------------
(* recommend_coins.py: fetch_historical_data and compute_coin_stats *)

RiskFree == 30000
DaysPerYear == 365
Sqrt365 == 19104973

\* a - b and a * b for a finite b; a non-finite a stays what it is
NpSub(a, b) == IF IsFinite(a) THEN a - b ELSE a
NpMul(a, b) == IF IsFinite(a) THEN MulFix(a, b) ELSE a

\* (1 + avg) ** 365 - 1
Annualize(avg) ==
    IF IsFinite(avg) THEN PowFix(Scale + avg, DaysPerYear) - Scale ELSE avg

\* np.diff(prices) / prices[:-1]
Returns(prices) ==
    [i \in 1..(Len(prices) - 1) |-> NpDiv(prices[i + 1] - prices[i], prices[i])]

\* fetch_historical_data changed to refuse a history of fewer than 2 samples
fetch_historical_data_min2(response) ==
    IF IsNone(response) THEN None
    ELSE LET prices == Val(response)
         IN  IF Len(prices) < 2 THEN None
             ELSE Some([prices        |-> prices,
                        returns       |-> Returns(prices),
                        current_price |-> prices[Len(prices)],
                        start_price   |-> prices[1],
                        total_return  |-> NpSub(NpDiv(prices[Len(prices)], prices[1]), Scale)])

(* fetch_historical_data.  response is what get_coin_market_chart_by_id     *)
(* answers: None when the call raises, else Some(prices), the price column  *)
(* of data['prices'].  Indexing column 1 of an empty array raises           *)
(* IndexError, which the except clause turns into None like any other       *)
(* exception.                                                               *)
fetch_historical_data(response) ==
    IF IsNone(response) THEN None
    ELSE LET prices == Val(response)
         IN  IF Len(prices) = 0 THEN None
             ELSE Some([prices        |-> prices,
                        returns       |-> Returns(prices),
                        current_price |-> prices[Len(prices)],
                        start_price   |-> prices[1],
                        total_return  |-> NpSub(NpDiv(prices[Len(prices)], prices[1]), Scale)])

\* line 66 changed to leave the risk-free rate out
SharpeRatioNoRiskFree(annual_return, annual_volatility) ==
    IF annual_volatility > 0 THEN NpDiv(annual_return, annual_volatility) ELSE 0

\* line 66: a null volatility compares False with 0, and the ratio is 0
SharpeRatio(annual_return, annual_volatility) ==
    IF annual_volatility > 0
    THEN NpDiv(NpSub(annual_return, RiskFree), annual_volatility)
    ELSE 0

(* compute_coin_stats.  A coin of the snapshot is [id, current_price]; the   *)
(* name, symbol, market cap, volume and percentage changes are copied       *)
(* through unchanged by the source and are left out, the id standing for    *)
(* the symbol.                                                              *)
compute_coin_stats(coin_data, hist_data) ==
    IF IsNone(hist_data) THEN None
    ELSE LET hist              == Val(hist_data)
             returns           == hist.returns
             daily_volatility  == IF Len(returns) > 0 THEN NpStd(returns) ELSE 0
             annual_volatility == NpMul(daily_volatility, Sqrt365)
             avg_daily_return  == IF Len(returns) > 0 THEN NpMean(returns) ELSE 0
             annual_return     == Annualize(avg_daily_return)
             sharpe_ratio      == SharpeRatio(annual_return, annual_volatility)
         IN  Some([symbol            |-> coin_data.id,
                   current_price     |-> coin_data.current_price,
                   total_return_1y   |-> hist.total_return,
                   annual_return     |-> annual_return,
                   daily_volatility  |-> daily_volatility,
                   annual_volatility |-> annual_volatility,
                   sharpe_ratio      |-> sharpe_ratio])


-----------------------------------------------------------------------------
(* recommend_coins.py: rank_coins_by_strategy *)

\* the record r with one more column
AddField(r, name, v) ==
    [x \in (DOMAIN r) \cup {name} |-> IF x = name THEN v ELSE r[x]]

\* pd.DataFrame(stats_list): the rows in list order, index labels 0, 1, ...
DataFrame(rows) == [i \in 1..Len(rows) |-> AddField(rows[i], "index", i - 1)]

\* dropna changed to look at the Sharpe ratio alone
DropNaKeepsSharpeOnly(row) == ~IsNull(row.sharpe_ratio)

\* df.dropna(subset=['sharpe_ratio', 'annual_volatility'])
DropNaKeeps(row) == ~IsNull(row.sharpe_ratio) /\ ~IsNull(row.annual_volatility)
RECURSIVE DropNaFrom(_, _)
DropNaFrom(df, i) ==
    IF i > Len(df) THEN <<>>
    ELSE IF DropNaKeeps(df[i]) THEN <<df[i]>> \o DropNaFrom(df, i + 1)
    ELSE DropNaFrom(df, i + 1)
DropNa(df) == DropNaFrom(df, 1)

\* the rank changed to the zero-based percentile (rank - 1) / (count - 1)
PctRankZeroBased(values, i) ==
    IF IsNull(values[i]) THEN NaN
    ELSE LET valid == {j \in 1..Len(values) : ~IsNull(values[j])}
             first == Cardinality({j \in valid : values[j] < values[i]}) + 1
             last  == Cardinality({j \in valid : values[j] <= values[i]})
         IN  IF Cardinality(valid) = 1 THEN 0
             ELSE DivFix(first + last - 2, 2 * (Cardinality(valid) - 1))

(* Series.rank(pct=True) at position i of the column values: the values     *)
(* are put in ascending order and numbered 1..count, equal values share     *)
(* the mean of their numbers, and the result is divided by the count of     *)
(* non-null values; a null value ranks null.                                *)
PctRank(values, i) ==
    IF IsNull(values[i]) THEN NaN
    ELSE LET valid == {j \in 1..Len(values) : ~IsNull(values[j])}
             first == Cardinality({j \in valid : values[j] < values[i]}) + 1
             last  == Cardinality({j \in valid : values[j] <= values[i]})
         IN  DivFix(first + last, 2 * Cardinality(valid))

\* df[name]
Column(df, name) == [i \in 1..Len(df) |-> df[i][name]]

\* a * w + b * v on ranks; a null rank makes the score null
Weighted(a, w, b, v) ==
    IF IsNull(a) \/ IsNull(b) THEN NaN ELSE MulFix(a, w) + MulFix(b, v)
OneMinus(a) == IF IsNull(a) THEN NaN ELSE Scale - a

\* the strategy test changed to send an unrecognized name to the aggressive score
ScoreUnknownAggressive(df, strat, i) ==
    IF strat = "conservative"
    THEN Weighted(OneMinus(PctRank(Column(df, "annual_volatility"), i)), 600000,
                  PctRank(Column(df, "annual_return"), i), 400000)
    ELSE IF strat = "balanced"
    THEN PctRank(Column(df, "sharpe_ratio"), i)
    ELSE Weighted(PctRank(Column(df, "annual_return"), i), 700000,
                  OneMinus(PctRank(Column(df, "annual_volatility"), i)), 300000)

\* the score column of row i of df under a strategy (lines 100-114)
Score(df, strat, i) ==
    IF strat = "conservative"
    THEN Weighted(OneMinus(PctRank(Column(df, "annual_volatility"), i)), 600000,
                  PctRank(Column(df, "annual_return"), i), 400000)
    ELSE IF strat = "aggressive"
    THEN Weighted(PctRank(Column(df, "annual_return"), i), 700000,
                  OneMinus(PctRank(Column(df, "annual_volatility"), i)), 300000)
    ELSE PctRank(Column(df, "sharpe_ratio"), i)

WithScore(df, strat) ==
    [i \in 1..Len(df) |-> AddField(df[i], "score", Score(df, strat, i))]

\* the sort changed to ascending order
ScoreOrderedAscending(a, b) == IsNull(b) \/ (~IsNull(a) /\ a <= b)

\* a before b in df.sort_values('score', ascending=False): nulls last
ScoreOrdered(a, b) == IsNull(b) \/ (~IsNull(a) /\ a >= b)

Permutations(n) ==
    {f \in [1..n -> 1..n] : \A i, j \in 1..n : i # j => f[i] # f[j]}

(* df.sort_values('score', ascending=False).  The default sort kind is not  *)
(* stable, so rows of equal score may come out in any order: every          *)
(* arrangement in descending score order is a possible result.              *)
SortValues(df) ==
    {[i \in 1..Len(df) |-> df[f[i]]] : f \in
        {g \in Permutations(Len(df)) :
            \A i \in 1..(Len(df) - 1) : ScoreOrdered(df[g[i]].score, df[g[i + 1]].score)}}

\* pd.DataFrame([]) has no columns, and dropna(subset=...) raises KeyError
RankRaises(stats) == Len(stats) = 0

\* the tables rank_coins_by_strategy may return when it does not raise
rank_coins_by_strategy(stats, strat) ==
    SortValues(WithScore(DropNa(DataFrame(stats)), strat))

-----------------------------------------------------------------------------
(* recommend_coins.py: allocate_portfolio *)

Min(a, b) == IF a < b THEN a ELSE b

\* ranked_df.head(n)
HeadRows(df, n) == SubSeq(df, 1, Min(n, Len(df)))

(* amount is the fraction investment_amount / top_n; quantity is            *)
(* amount / current_price, the fraction investment_amount /                 *)
(* (top_n * current_price), whose denominator 0 is numpy's division by      *)
(* zero: inf for a positive numerator, nan for 0 / 0.                       *)
allocate_portfolio(ranked_df, amount, n) ==
    LET top == HeadRows(ranked_df, n)
    IN  [i \in 1..Len(top) |->
            [index             |-> i - 1,
             symbol            |-> top[i].symbol,
             current_price     |-> top[i].current_price,
             amount            |-> [num |-> amount, den |-> n],
             quantity          |-> [num |-> amount, den |-> n * top[i].current_price],
             score             |-> top[i].score,
             annual_volatility |-> top[i].annual_volatility,
             sharpe_ratio      |-> top[i].sharpe_ratio]]


-----------------------------------------------------------------------------
(* Inputs *)

MaxCoins == 3       \* coins in a snapshot of the batch run
MaxRows == 2        \* rows of a stats collection handed to the ranker
MaxTopN == 3        \* largest top_n / num_coins tried
DashCoins == 2      \* coins in the snapshot the dashboard analyses

CoinPrices == {0, 2}
SnapshotPrices == {2}
Investments == {100, 10000}
Strategies == {"conservative", "balanced", "aggressive"}

\* price histories (oldest first) the market-chart call may answer with
Flat == <<50000, 50000, 50000>>
IncFast == <<50000, 50050, 50060>>
IncSlow == <<50000, 50001, 50006>>
IncTwo == <<50000, 50050>>
Dec == <<50060, 50050, 50000>>
DecTwo == <<50050, 50000>>
ZeroPrice == <<50000, 0, 50000>>
Histories == {<<>>, <<50000>>, Flat, IncFast, IncSlow, IncTwo, Dec, DecTwo, ZeroPrice}

\* what get_coin_market_chart_by_id may do: raise (None) or answer with a history
Responses == {None} \cup {Some(h) : h \in Histories}

SeqsUpTo(S, n) == UNION {[1..k -> S] : k \in 0..n}

\* snapshots: at least one coin, ids 1..k in market-cap order
SnapshotsOf(n, prices) ==
    {[i \in 1..Len(p) |-> [id |-> i, current_price |-> p[i]]] :
        p \in SeqsUpTo(prices, n) \ {<<>>}}

-----------------------------------------------------------------------------
(* recommend_coins.py: main *)

MainInvestment == 10000
MainTopN == 5

\* the loop body of lines 142-148 (and of the dashboard's lines 73-77)
AnalyzeCoin(list, coin, response) ==
    LET hist == fetch_historical_data(response)
    IN  IF IsNone(hist) THEN list
        ELSE LET stats == compute_coin_stats(coin, hist)
             IN  IF IsNone(stats) THEN list ELSE Append(list, Val(stats))

Init ==
    /\ pc = "start"
    /\ top_coins = <<>>
    /\ idx = 0
    /\ fetched = <<>>
    /\ stats_list = <<>>
    /\ df_stats = None
    /\ strategy = "balanced"
    /\ investment_amount = MainInvestment
    /\ top_n = MainTopN
    /\ ranked = None
    /\ portfolio = None
    /\ session_state = None
    /\ result_params = None

\* line 138: the snapshot fetch answers, or raises out of main
MainFetchTop20 ==
    /\ pc = "start"
    /\ \/ /\ top_coins' \in SnapshotsOf(MaxCoins, SnapshotPrices)
          /\ pc' = "loop"
       \/ /\ pc' = "snapshot_failed"
          /\ UNCHANGED top_coins
    /\ UNCHANGED <<idx, fetched, stats_list, df_stats, strategy, investment_amount,
                   top_n, ranked, portfolio, session_state, result_params>>

\* lines 141-148: one iteration of the loop over top_coins
MainAnalyzeCoin ==
    /\ pc = "loop"
    /\ idx < Len(top_coins)
    /\ \E response \in Responses :
          /\ fetched' = Append(fetched, response)
          /\ stats_list' = AnalyzeCoin(stats_list, top_coins[idx + 1], response)
    /\ idx' = idx + 1
    /\ UNCHANGED <<pc, top_coins, df_stats, strategy, investment_amount, top_n,
                   ranked, portfolio, session_state, result_params>>

\* lines 150-162: the stats table is built and saved, then ranked and allocated
MainRankAllocate ==
    /\ pc = "loop"
    /\ idx = Len(top_coins)
    /\ df_stats' = Some(DataFrame(stats_list))
    /\ IF RankRaises(stats_list)
       THEN /\ pc' = "raised"
            /\ UNCHANGED <<ranked, portfolio>>
       ELSE /\ \E r \in rank_coins_by_strategy(stats_list, strategy) :
                  /\ ranked' = Some(r)
                  /\ portfolio' = Some(allocate_portfolio(r, investment_amount, top_n))
            /\ pc' = "returned"
    /\ UNCHANGED <<top_coins, idx, fetched, stats_list, strategy, investment_amount,
                   top_n, session_state, result_params>>

Next == MainFetchTop20 \/ MainAnalyzeCoin \/ MainRankAllocate

Spec == Init /\ [][Next]_vars


-----------------------------------------------------------------------------
(* The ranker and the allocator on their own: rank_coins_by_strategy        *)
(* applied to a stats collection, then allocate_portfolio to its result.    *)

RankStrategies == Strategies \cup {"moderate"}

Low == Scale \div 10
High == 2 * Low

\* CoinStats rows: every combination of two values per metric at a positive
\* price, a row with a null volatility, one with a null Sharpe ratio, and
\* one with a zero price
RankRows ==
    {[current_price |-> 2, annual_volatility |-> v, annual_return |-> r, sharpe_ratio |-> s] :
        v \in {Low, High}, r \in {Low, High}, s \in {Low, High}}
    \cup {[current_price |-> 2, annual_volatility |-> NaN, annual_return |-> Inf, sharpe_ratio |-> 0],
          [current_price |-> 2, annual_volatility |-> Low, annual_return |-> Low, sharpe_ratio |-> NaN],
          [current_price |-> 0, annual_volatility |-> Low, annual_return |-> High, sharpe_ratio |-> High]}

StatsLists ==
    {[i \in 1..Len(rows) |-> AddField(rows[i], "symbol", i)] : rows \in SeqsUpTo(RankRows, MaxRows)}

InitRank ==
    /\ pc = "rank"
    /\ stats_list \in StatsLists
    /\ strategy \in RankStrategies
    /\ top_coins = <<>>
    /\ idx = 0
    /\ fetched = <<>>
    /\ df_stats = None
    /\ investment_amount = 0
    /\ top_n = 0
    /\ ranked = None
    /\ portfolio = None
    /\ session_state = None
    /\ result_params = None

\* a call of rank_coins_by_strategy(stats_list, strategy)
Rank ==
    /\ pc = "rank"
    /\ IF RankRaises(stats_list)
       THEN /\ pc' = "raised"
            /\ UNCHANGED ranked
       ELSE /\ \E r \in rank_coins_by_strategy(stats_list, strategy) : ranked' = Some(r)
            /\ pc' = "allocate"
    /\ UNCHANGED <<top_coins, idx, fetched, stats_list, df_stats, strategy,
                   investment_amount, top_n, portfolio, session_state, result_params>>

\* a call of allocate_portfolio(ranked, investment_amount, top_n)
Allocate ==
    /\ pc = "allocate"
    /\ \E amount \in Investments, n \in 1..MaxTopN :
          /\ investment_amount' = amount
          /\ top_n' = n
          /\ portfolio' = Some(allocate_portfolio(Val(ranked), amount, n))
    /\ pc' = "done"
    /\ UNCHANGED <<top_coins, idx, fetched, stats_list, df_stats, strategy, ranked,
                   session_state, result_params>>

NextRank == Rank \/ Allocate

SpecRank == InitRank /\ [][NextRank]_vars

-----------------------------------------------------------------------------
(* streamlit_recommend.py: the script, run top to bottom on every           *)
(* interaction.  investment_amount, strategy and top_n are the widget       *)
(* values of the current run (top_n is num_coins).                          *)

DashResponses == {None, Some(IncFast), Some(Dec)}

Params(amount, strat, n) == <<amount, strat, n>>

InitDash ==
    /\ pc = "idle"
    /\ session_state = [portfolio |-> None, ranked_df |-> None, last_params |-> None]
    /\ result_params = None
    /\ investment_amount = 10000
    /\ strategy = "conservative"
    /\ top_n = 5
    /\ top_coins = <<>>
    /\ idx = 0
    /\ fetched = <<>>
    /\ stats_list = <<>>
    /\ df_stats = None
    /\ ranked = None
    /\ portfolio = None

\* lines 20-58: the widgets are read, should_analyze is decided and, when it
\* is set, last_params is overwritten before the analysis starts
DashRerun ==
    /\ pc = "idle"
    /\ \E amount \in Investments, strat \in Strategies, n \in 1..MaxTopN, refresh \in BOOLEAN :
          LET current_params == Params(amount, strat, n)
              should_analyze == refresh \/ session_state.last_params # Some(current_params)
          IN  /\ investment_amount' = amount
              /\ strategy' = strat
              /\ top_n' = n
              /\ IF should_analyze
                 THEN /\ session_state' = [session_state EXCEPT !.last_params = Some(current_params)]
                      /\ pc' = "fetch"
                 ELSE /\ UNCHANGED session_state
                      /\ pc' = "display"
    /\ top_coins' = <<>>
    /\ idx' = 0
    /\ fetched' = <<>>
    /\ stats_list' = <<>>
    /\ UNCHANGED <<df_stats, ranked, portfolio, result_params>>

\* lines 61-65: the snapshot fetch answers, or raises into the except clause
DashFetchTop20 ==
    /\ pc = "fetch"
    /\ \/ /\ top_coins' \in SnapshotsOf(DashCoins, SnapshotPrices)
          /\ pc' = "loop"
       \/ /\ pc' = "display"
          /\ UNCHANGED top_coins
    /\ UNCHANGED <<idx, fetched, stats_list, df_stats, strategy, investment_amount,
                   top_n, ranked, portfolio, session_state, result_params>>

\* lines 67-78: one iteration of the loop over top_coins
DashAnalyzeCoin ==
    /\ pc = "loop"
    /\ idx < Len(top_coins)
    /\ \E response \in DashResponses :
          /\ fetched' = Append(fetched, response)
          /\ stats_list' = AnalyzeCoin(stats_list, top_coins[idx + 1], response)
    /\ idx' = idx + 1
    /\ UNCHANGED <<pc, top_coins, df_stats, strategy, investment_amount, top_n,
                   ranked, portfolio, session_state, result_params>>

\* lines 80-91: with stats collected the ranking and the portfolio are stored
\* in the session; with none an error is shown and the session is left as is
DashRankAllocate ==
    /\ pc = "loop"
    /\ idx = Len(top_coins)
    /\ IF stats_list # <<>>
       THEN \E r \in rank_coins_by_strategy(stats_list, strategy) :
               /\ session_state' =
                     [session_state EXCEPT
                        !.ranked_df = Some(r),
                        !.portfolio = Some(allocate_portfolio(r, investment_amount, top_n))]
               /\ result_params' = Some(Params(investment_amount, strategy, top_n))
       ELSE UNCHANGED <<session_state, result_params>>
    /\ pc' = "display"
    /\ UNCHANGED <<top_coins, idx, fetched, stats_list, df_stats, strategy,
                   investment_amount, top_n, ranked, portfolio>>

\* line 98: whether the results block is rendered
Displayed ==
    ~IsNone(session_state.portfolio) /\ ~IsNone(session_state.ranked_df)

\* lines 98-173: the results (or the hint to click the button) are rendered
DashDisplay ==
    /\ pc = "display"
    /\ pc' = "idle"
    /\ UNCHANGED <<top_coins, idx, fetched, stats_list, df_stats, strategy,
                   investment_amount, top_n, ranked, portfolio, session_state, result_params>>

NextDash ==
    DashRerun \/ DashFetchTop20 \/ DashAnalyzeCoin \/ DashRankAllocate \/ DashDisplay

SpecDash == InitDash /\ [][NextDash]_vars


-----------------------------------------------------------------------------
(* Properties of the batch run (Spec) *)

SymbolSeq(df) == [i \in 1..Len(df) |-> df[i].symbol]
Symbols(df) == {df[i].symbol : i \in 1..Len(df)}
RowOf(df, sym) == df[CHOOSE i \in 1..Len(df) : df[i].symbol = sym]

\* the history fetch of a coin failed: the call raised, or answered with no sample
HistoryFailed(response) == IsNone(response) \/ Len(Val(response)) = 0

\* the ids of the analysed coins whose history fetch did not fail, in snapshot order
RECURSIVE FetchedIds(_)
FetchedIds(i) ==
    IF i = 0 THEN <<>>
    ELSE IF HistoryFailed(fetched[i]) THEN FetchedIds(i - 1)
    ELSE Append(FetchedIds(i - 1), top_coins[i].id)

\* C2 (as claimed): once the snapshot fetch has succeeded the batch run never
\* fails outward; it ends by returning the stats, ranked and portfolio tables,
\* whatever the pattern of per-coin history failures.
C2_BatchRunCompletes ==
    /\ pc # "raised"
    /\ pc = "returned" => ~IsNone(df_stats) /\ ~IsNone(ranked) /\ ~IsNone(portfolio)

\* C4 (as claimed): a coin whose price history has fewer than 2 samples gets
\* no CoinStats row.
C4_ShortHistoryUnavailable ==
    \A i \in 1..Len(fetched) :
        (~IsNone(fetched[i]) /\ Len(Val(fetched[i])) < 2)
            => top_coins[i].id \notin Symbols(stats_list)

\* C4 (amended): a history with no sample yields no CoinStats row; a history
\* with exactly one sample yields a row whose total return, daily and annual
\* volatility, annual return and Sharpe ratio are all 0.
C4_EmptyUnavailableSingleSampleZero ==
    \A i \in 1..Len(fetched) :
        ~IsNone(fetched[i]) =>
            /\ Len(Val(fetched[i])) = 0 => top_coins[i].id \notin Symbols(stats_list)
            /\ Len(Val(fetched[i])) = 1 =>
                  /\ top_coins[i].id \in Symbols(stats_list)
                  /\ LET row == RowOf(stats_list, top_coins[i].id)
                     IN  /\ row.total_return_1y = 0
                         /\ row.daily_volatility = 0
                         /\ row.annual_volatility = 0
                         /\ row.annual_return = 0
                         /\ row.sharpe_ratio = 0

\* a run that met a history with no sample and one with a single sample
C4_Witness ==
    /\ \E i \in 1..Len(fetched) : ~IsNone(fetched[i]) /\ Len(Val(fetched[i])) = 0
    /\ \E i \in 1..Len(fetched) :
          /\ ~IsNone(fetched[i]) /\ Len(Val(fetched[i])) = 1
          /\ top_coins[i].id \in Symbols(stats_list)

NullInputs(row) == IsNull(row.sharpe_ratio) \/ IsNull(row.annual_volatility)

\* C6: the stats rows are exactly the analysed coins whose history fetch did
\* not fail, in snapshot order; in a completed run the stats table holds those
\* rows, no stats row with a null Sharpe ratio or null volatility is in the
\* ranked or the portfolio table, and every stats row missing from the ranked
\* table has one of the two null.
C6_StagedFiltering ==
    /\ SymbolSeq(stats_list) = FetchedIds(idx)
    /\ pc = "returned" =>
          LET stats == Val(df_stats)
          IN  /\ SymbolSeq(stats) = FetchedIds(Len(top_coins))
              /\ \A i \in 1..Len(stats) :
                    /\ NullInputs(stats[i]) =>
                          /\ stats[i].symbol \notin Symbols(Val(ranked))
                          /\ stats[i].symbol \notin Symbols(Val(portfolio))
                    /\ stats[i].symbol \notin Symbols(Val(ranked)) => NullInputs(stats[i])

\* a completed run with a failed fetch, a stats row dropped for a null
\* volatility and a ranked coin
C6_Witness ==
    /\ pc = "returned"
    /\ \E i \in 1..Len(fetched) : HistoryFailed(fetched[i])
    /\ \E i \in 1..Len(Val(df_stats)) :
          /\ NullInputs(Val(df_stats)[i])
          /\ Val(df_stats)[i].symbol \notin Symbols(Val(ranked))
    /\ Len(Val(ranked)) > 0

IsFlat(h) == Len(h) >= 2 /\ \A i \in 1..(Len(h) - 1) : h[i] = h[i + 1]
StrictlyIncreasing(h) == Len(h) >= 2 /\ \A i \in 1..(Len(h) - 1) : h[i] < h[i + 1]
StrictlyDecreasing(h) == Len(h) >= 2 /\ \A i \in 1..(Len(h) - 1) : h[i] > h[i + 1]

\* a completed run over three coins: f with a flat, u with a strictly
\* increasing and d with a strictly decreasing price series
ThreeCoinScenario(f, u, d) ==
    /\ pc = "returned"
    /\ Len(top_coins) = 3
    /\ {f, u, d} = 1..3
    /\ ~IsNone(fetched[f]) /\ IsFlat(Val(fetched[f]))
    /\ ~IsNone(fetched[u]) /\ StrictlyIncreasing(Val(fetched[u]))
    /\ ~IsNone(fetched[d]) /\ StrictlyDecreasing(Val(fetched[d]))

\* C8 (as claimed): in every such run the flat coin has zero volatility and
\* zero Sharpe ratio, the increasing coin a positive Sharpe ratio, and the
\* balanced ranking puts the increasing coin first and the decreasing coin last.
C8_IncreasingFirstDecreasingLast ==
    \A f, u, d \in 1..3 :
        ThreeCoinScenario(f, u, d) =>
            /\ RowOf(stats_list, f).annual_volatility = 0
            /\ RowOf(stats_list, f).sharpe_ratio = 0
            /\ RowOf(stats_list, u).sharpe_ratio > 0
            /\ Val(ranked)[1].symbol = u
            /\ Val(ranked)[3].symbol = d

\* C8 (amended): the flat coin has zero volatility and zero Sharpe ratio; the
\* increasing coin has a positive Sharpe ratio exactly when its volatility is
\* positive and its annual return exceeds the risk-free rate, and is then
\* ranked first; the decreasing coin never has a positive Sharpe ratio, and is
\* ranked last when its Sharpe ratio is negative and the increasing coin's is
\* not.
C8_RankingFollowsSharpeSign ==
    \A f, u, d \in 1..3 :
        ThreeCoinScenario(f, u, d) =>
            LET flat == RowOf(stats_list, f)
                inc  == RowOf(stats_list, u)
                dec  == RowOf(stats_list, d)
            IN  /\ flat.annual_volatility = 0
                /\ flat.sharpe_ratio = 0
                /\ inc.sharpe_ratio > 0 <=>
                      (inc.annual_volatility > 0 /\ inc.annual_return > RiskFree)
                /\ inc.sharpe_ratio > 0 => Val(ranked)[1].symbol = u
                /\ dec.sharpe_ratio <= 0
                /\ (dec.sharpe_ratio < 0 /\ inc.sharpe_ratio >= 0) => Val(ranked)[3].symbol = d

\* a three-coin run whose increasing coin has a positive Sharpe ratio and
\* whose decreasing coin has a negative one
C8_Witness ==
    \E f, u, d \in 1..3 :
        /\ ThreeCoinScenario(f, u, d)
        /\ RowOf(stats_list, u).sharpe_ratio > 0
        /\ RowOf(stats_list, d).sharpe_ratio < 0
        /\ Val(ranked)[1].symbol = u
        /\ Val(ranked)[3].symbol = d


-----------------------------------------------------------------------------
(* Properties of the ranker and the allocator (SpecRank) *)

FracAdd(a, b) == [num |-> a.num * b.den + b.num * a.den, den |-> a.den * b.den]
FracEq(a, b) == a.num * b.den = b.num * a.den

RECURSIVE SumAmount(_)
SumAmount(lines) ==
    IF lines = <<>> THEN [num |-> 0, den |-> 1]
    ELSE FracAdd(Head(lines).amount, SumAmount(Tail(lines)))

\* C1 (as claimed): for a non-empty ranked table, any positive amount and any
\* top_n, the amounts of the portfolio lines sum to investment_amount.
C1_AmountsSumToInvestment ==
    (pc = "done" /\ Len(Val(ranked)) > 0) =>
        FracEq(SumAmount(Val(portfolio)), [num |-> investment_amount, den |-> 1])

\* C3 (as claimed): no portfolio line has an infinite or NaN quantity; a coin
\* whose price is not positive is not among the lines, and on every line
\* quantity * current_price equals amount.
C3_QuantitiesFinite ==
    pc = "done" =>
        \A i \in 1..Len(Val(portfolio)) :
            LET line == Val(portfolio)[i]
            IN  /\ line.quantity.den # 0
                /\ line.current_price > 0
                /\ FracEq([num |-> line.quantity.num * line.current_price,
                           den |-> line.quantity.den], line.amount)

Ranked == pc \in {"allocate", "done"}

CountLess(df, name, i) == Cardinality({j \in 1..Len(df) : df[j][name] < df[i][name]})
CountEqual(df, name, i) == Cardinality({j \in 1..Len(df) : df[j][name] = df[i][name]})

\* the mean of the 1-based ascending positions of the rows equal to row i,
\* over the number of rows
AverageRankOverCount(df, name, i) ==
    DivFix(2 * CountLess(df, name, i) + CountEqual(df, name, i) + 1, 2 * Len(df))

\* C5 (as claimed): the percentile rank is 0 for the lowest and 1 for the
\* highest value; under the balanced strategy the score is the rank of the
\* Sharpe ratio, so among two or more rows the one with the single lowest
\* Sharpe ratio scores 0 and the one with the single highest scores 1.
C5_LowestZeroHighestOne ==
    (Ranked /\ strategy = "balanced" /\ Len(Val(ranked)) >= 2) =>
        LET df == Val(ranked)
        IN  \A i \in 1..Len(df) :
                /\ (\A j \in 1..Len(df) : j # i => df[i].sharpe_ratio < df[j].sharpe_ratio)
                        => df[i].score = 0
                /\ (\A j \in 1..Len(df) : j # i => df[i].sharpe_ratio > df[j].sharpe_ratio)
                        => df[i].score = Scale

\* C5 (amended): the percentile rank of a value among the n remaining rows is
\* the average of the 1-based ranks of the values equal to it, divided by n:
\* it lies in (0, 1], is 1/n (not 0) for a single lowest value and 1 for a
\* single highest value, and every score is the strategy's combination of
\* these ranks.
C5_PctRankIsAverageRankOverCount ==
    Ranked =>
        LET df == Val(ranked)
            n  == Len(df)
            pv(i) == AverageRankOverCount(df, "annual_volatility", i)
            pr(i) == AverageRankOverCount(df, "annual_return", i)
            ps(i) == AverageRankOverCount(df, "sharpe_ratio", i)
        IN  \A i \in 1..n :
                /\ strategy = "conservative" =>
                      df[i].score = MulFix(Scale - pv(i), 600000) + MulFix(pr(i), 400000)
                /\ strategy = "aggressive" =>
                      df[i].score = MulFix(pr(i), 700000) + MulFix(Scale - pv(i), 300000)
                /\ strategy \notin {"conservative", "aggressive"} =>
                      /\ df[i].score = ps(i)
                      /\ df[i].score > 0 /\ df[i].score <= Scale
                      /\ (\A j \in 1..n : j # i => df[i].sharpe_ratio < df[j].sharpe_ratio)
                            => df[i].score = DivFix(1, n)
                      /\ (\A j \in 1..n : j # i => df[i].sharpe_ratio > df[j].sharpe_ratio)
                            => df[i].score = Scale

\* a balanced ranking of two rows with different Sharpe ratios: the lower
\* one scores 1/2, the higher one 1
C5_Witness ==
    /\ Ranked
    /\ strategy = "balanced"
    /\ Len(Val(ranked)) = 2
    /\ Val(ranked)[2].sharpe_ratio < Val(ranked)[1].sharpe_ratio
    /\ Val(ranked)[2].score = DivFix(1, 2)
    /\ Val(ranked)[1].score = Scale

\* C7: the ranked table is in non-increasing score order; the portfolio is
\* its first min(top_n, rows) rows in that order, so no ranked coin left out
\* of the portfolio scores strictly higher than one included.
C7_SortedAndTopRowsAllocated ==
    /\ Ranked =>
          \A i \in 1..(Len(Val(ranked)) - 1) : Val(ranked)[i].score >= Val(ranked)[i + 1].score
    /\ pc = "done" =>
          LET df    == Val(ranked)
              lines == Val(portfolio)
          IN  /\ Len(lines) = Min(top_n, Len(df))
              /\ \A i \in 1..Len(lines) :
                    /\ lines[i].symbol = df[i].symbol
                    /\ lines[i].score = df[i].score
              /\ \A i \in 1..Len(lines) : \A j \in (Len(lines) + 1)..Len(df) :
                    df[j].score <= lines[i].score

\* an allocation that leaves out a ranked coin scoring strictly lower than
\* the one it includes
C7_Witness ==
    /\ pc = "done"
    /\ Len(Val(portfolio)) = 1
    /\ Len(Val(ranked)) = 2
    /\ Val(ranked)[2].score < Val(ranked)[1].score

\* C9: under any strategy name other than 'conservative' and 'aggressive' the
\* table returned is one the ranker returns for 'balanced' on the same stats
\* collection: the same rows with the same scores in an order 'balanced' gives.
C9_UnknownStrategyIsBalanced ==
    (Ranked /\ strategy \notin {"conservative", "aggressive"}) =>
        Val(ranked) \in rank_coins_by_strategy(stats_list, "balanced")

\* a ranking under an unrecognized strategy name whose two rows score differently
C9_Witness ==
    /\ Ranked
    /\ strategy = "moderate"
    /\ Len(Val(ranked)) = 2
    /\ Val(ranked)[2].score < Val(ranked)[1].score

-----------------------------------------------------------------------------
(* Property of the dashboard (SpecDash) *)

\* C10 (as claimed): whenever the results block is rendered, the portfolio and
\* ranking in the session were computed with the parameters currently selected,
\* which are the ones recorded in last_params.
C10_DisplayedResultsMatchParams ==
    (pc = "display" /\ Displayed) =>
        /\ result_params = Some(Params(investment_amount, strategy, top_n))
        /\ result_params = session_state.last_params


====
